---- MODULE Spec2Model ----
(***************************************************************************)
(* The streaming STFT pipeline of src/fft.rs: Fft::new, Fft::consume,      *)
(* fold_output and prepare_hamming_window.                                 *)
(*                                                                         *)
(* Numbers.  An f32/f64 value is modelled by an integer count of units of  *)
(* 1/FP (fixed point, FP = 10^8), or by NaN.  Sums, differences and the    *)
(* products of fold_output are exact integer arithmetic; FMul and FCos     *)
(* round to the unit.  Samples are small integers, so that nothing leaves  *)
(* the 32-bit range of TLC's integers.                                     *)
(***************************************************************************)
EXTENDS Integers, Sequences, FiniteSets, TLC

VARIABLES
    pc,              \* "unbuilt" before Fft::new() has run, then "built"
    slicer,          \* Fft.slicer: Option<FixedSlicer<i16>>, <<>> = None, <<s>> = Some(s)
    fft,             \* Fft.fft: the Radix4 plan, <<>> before construction
    hamming_window,  \* Fft.hamming_window
    newOutcome,      \* how Fft::new() ended: "none", "ok", "panic"
    seed,            \* which sample stream the caller feeds
    fed,             \* samples handed to the framer so far (T)
    calls,           \* consume calls made so far
    outcome,         \* how the last consume call ended
    delivered,       \* the consumer's log: the argument of every invocation, in order
    w_size, w_scale, w_done, w_result,   \* a call of prepare_hamming_window
    f_spectrum, f_done, f_result         \* a call of fold_output

vars == <<pc, slicer, fft, hamming_window, newOutcome, seed, fed, calls, outcome, delivered,
          w_size, w_scale, w_done, w_result, f_spectrum, f_done, f_result>>

pipelineVars == <<pc, slicer, fft, hamming_window, newOutcome, seed, fed, calls, outcome,
                  delivered>>
windowVars == <<w_size, w_scale, w_done, w_result>>
foldVars == <<f_spectrum, f_done, f_result>>

-----------------------------------------------------------------------------
(* Bounds of the model *)

MaxFrames == 3        \* the stream fed to one pipeline holds at most this many frames
MaxCalls == 3         \* consume calls on one pipeline
MaxSize == 11         \* prepare_hamming_window sizes 0..MaxSize
MaxSpectrumLen == 3   \* fold_output inputs of length 0..MaxSpectrumLen

-----------------------------------------------------------------------------
(* Program constants *)

FRAME_SIZE == 4096
OVERLAP == FRAME_SIZE - FRAME_SIZE \div 3
I16_MAX == 32767
PI == 314159265       \* std::f32::consts::PI in units of 1/FP

-----------------------------------------------------------------------------
(* Floating point *)

FP == 10^8
HalfFP == 10^4
NaN == 0 - 2^30

Abs(a) == IF a < 0 THEN -a ELSE a
Sgn(a) == IF a < 0 THEN -1 ELSE 1

\* a * b / FP for a, b >= 0, rounded, without leaving 32 bits
FMulAbs(a, b) ==
    LET ah == a \div HalfFP
        al == a % HalfFP
        bh == b \div HalfFP
        bl == b % HalfFP
    IN  ah * bh + (ah * bl + al * bh + (al * bl) \div HalfFP + HalfFP \div 2) \div HalfFP

FMul(a, b) ==
    IF a = NaN \/ b = NaN THEN NaN ELSE Sgn(a) * Sgn(b) * FMulAbs(Abs(a), Abs(b))

FSub(a, b) == IF a = NaN \/ b = NaN THEN NaN ELSE a - b

\* (a * b) / d for a, b >= 0.  A quotient by 0.0 is NaN (0.0 / 0.0) or infinite,
\* and the cosine of either is NaN: both are NaN here.
FMulDiv(a, b, d) ==
    IF a = NaN THEN NaN
    ELSE IF d = 0 THEN NaN
    ELSE (a \div d) * b + ((a % d) * b) \div d

RECURSIVE CosSeries(_, _)
CosSeries(y, k) ==
    IF k > 8 THEN FP
    ELSE FP - FMul(y \div ((2 * k - 1) * (2 * k)), CosSeries(y, k + 1))

\* f32::cos: NaN for NaN, else the cosine by reduction to [0, pi/2] and its series
FCos(a) ==
    IF a = NaN THEN NaN
    ELSE LET r == Abs(a) % (2 * PI)
             s == IF r > PI THEN 2 * PI - r ELSE r
         IN  IF 2 * s > PI
             THEN -CosSeries(FMul(PI - s, PI - s), 1)
             ELSE CosSeries(FMul(s, s), 1)

-----------------------------------------------------------------------------
(* prepare_hamming_window *)

\* Faulty variant: the periodic window, 2*pi*idx/size
PhaseBySize(idx, size) == FMulDiv(2 * PI, idx, size)

\* idx as f32 * 2.0 * PI / (size as f32 - 1.0)
Phase(idx, size) == FMulDiv(2 * PI, idx, size - 1)

prepare_hamming_window(size, scale) ==
    [i \in 1..size |->
        FMul(scale, FSub(54 * (FP \div 100),
                         FMul(46 * (FP \div 100), FCos(Phase(i - 1, size)))))]

-----------------------------------------------------------------------------
(* fold_output *)

Complex(re, im) == [re |-> re, im |-> im]

\* Faulty variant: the imaginary part is dropped
PowerReOnly(c) == c.re * c.re

\* fft[idx].re as f64 * fft[idx].re as f64 + fft[idx].im as f64 * fft[idx].im as f64
Power(c) == c.re * c.re + c.im * c.im

\* The result of a call that may panic
Returned(v) == [panicked |-> FALSE, value |-> v]
Panicked == [panicked |-> TRUE, value |-> <<>>]

\* The loop reads fft[idx] for idx in 0..half_input; an index >= fft.len() panics.
fold_output(spectrum) ==
    LET len == Len(spectrum)
        half_input == len \div 2
    IN  IF \E idx \in 0..half_input : idx >= len
        THEN Panicked
        ELSE Returned([i \in 1..(half_input + 1) |-> Power(spectrum[i])])

-----------------------------------------------------------------------------
(* The pure functions, called on their own *)

Scales == {FP, FP \div I16_MAX, 2 * FP, FP \div 2, 3 * FP}

InitWindow ==
    /\ w_size \in 0..MaxSize
    /\ w_scale \in Scales
    /\ w_done = FALSE
    /\ w_result = <<>>

CallWindow ==
    /\ ~w_done
    /\ w_done' = TRUE
    /\ w_result' = prepare_hamming_window(w_size, w_scale)
    /\ UNCHANGED <<w_size, w_scale>>

ComplexValues == {Complex(0, 0), Complex(1, 0), Complex(0, -2), Complex(3, 2)}

SpectraOfLen(n) == [1..n -> ComplexValues]

InitFold ==
    /\ f_spectrum \in UNION {SpectraOfLen(n) : n \in 0..MaxSpectrumLen}
    /\ f_done = FALSE
    /\ f_result = Panicked

CallFold ==
    /\ ~f_done
    /\ f_done' = TRUE
    /\ f_result' = fold_output(f_spectrum)
    /\ UNCHANGED f_spectrum

-----------------------------------------------------------------------------
(* The framer, slicer::FixedSlicer: frames of frame_size samples, hop apart *)

FixedSlicer_new(frame_size, hop) == [buf |-> <<>>, frame_size |-> frame_size, hop |-> hop]

RECURSIVE SlicerEmit(_, _)
SlicerEmit(s, frames) ==
    IF Len(s.buf) < s.frame_size
    THEN [slicer |-> s, frames |-> frames]
    ELSE SlicerEmit([s EXCEPT !.buf = SubSeq(s.buf, s.hop + 1, Len(s.buf))],
                    Append(frames, SubSeq(s.buf, 1, s.frame_size)))

\* Buffers data behind the retained samples and hands out every complete frame
FixedSlicer_process(s, data) == SlicerEmit([s EXCEPT !.buf = s.buf \o data], <<>>)

-----------------------------------------------------------------------------
(* The transform engine, rustfft::algorithm::Radix4 *)

IsPowerOfTwo(n) == \E k \in 0..30 : n = 2^k

\* Radix4::new asserts a power-of-two length
Radix4_new(len) == IF IsPowerOfTwo(len) THEN Returned([len |-> len]) ELSE Panicked

\* The engine is an external library.  Of its transform the model keeps the
\* radix-4 butterfly over (x[j], x[j+q], x[j+2q], x[j+3q]), q = len/4: the first
\* pass, exact in integers (the whole transform for len = 4); the later passes
\* multiply by irrational twiddle factors.  It is deterministic, keeps the
\* length, and every input sample reaches the bins 0..len/2.
Butterfly(x, q, j, m) ==
    LET a == x[j + 1]
        b == x[j + q + 1]
        c == x[j + 2 * q + 1]
        d == x[j + 3 * q + 1]
    IN  CASE m = 0 -> Complex(a.re + b.re + c.re + d.re, a.im + b.im + c.im + d.im)
          [] m = 1 -> Complex((a.re - c.re) + (b.im - d.im), (a.im - c.im) - (b.re - d.re))
          [] m = 2 -> Complex(a.re - b.re + c.re - d.re, a.im - b.im + c.im - d.im)
          [] m = 3 -> Complex((a.re - c.re) - (b.im - d.im), (a.im - c.im) + (b.re - d.re))

\* Fft::process: in place, on a buffer of the plan's length
Radix4_process(plan, buffer) ==
    LET n == Len(buffer)
        q == n \div 4
    IN  IF n # plan.len THEN Panicked
        ELSE IF n = 1 THEN Returned(buffer)
        ELSE IF n = 2
        THEN Returned(<<Complex(buffer[1].re + buffer[2].re, buffer[1].im + buffer[2].im),
                        Complex(buffer[1].re - buffer[2].re, buffer[1].im - buffer[2].im)>>)
        ELSE Returned([k \in 1..n |-> Butterfly(buffer, q, (k - 1) % q, (k - 1) \div q)])

-----------------------------------------------------------------------------
(* Fft::new *)

\* Faulty variant: the overlap is passed where the hop is expected
HopIsOverlap == OVERLAP

\* Faulty variant: a hop one sample too long
HopOffByOne == FRAME_SIZE - OVERLAP + 1

\* FixedSlicer::new's second argument
HopSize == FRAME_SIZE - OVERLAP

\* Faulty variant: the plan is built for the hop, not for the frame
PlanForHop == FRAME_SIZE - OVERLAP

\* Radix4::new's first argument
PlanSize == FRAME_SIZE

\* 1.0 / ::std::i16::MAX as f32
WindowScale == (2 * FP + I16_MAX) \div (2 * I16_MAX)

Fft_new ==
    LET plan == Radix4_new(PlanSize)
    IN  IF plan.panicked THEN Panicked
        ELSE Returned([slicer |-> <<FixedSlicer_new(FRAME_SIZE, HopSize)>>,
                       fft |-> <<plan.value>>,
                       hamming_window |-> prepare_hamming_window(FRAME_SIZE, WindowScale)])

-----------------------------------------------------------------------------
(* Fft::consume *)

\* self.hamming_window[idx] * (data as f32), as Complex::new(num, 0.0);
\* an idx >= hamming_window.len() panics
Converted(window, vec) ==
    LET len == Len(window)
        n == Len(vec)
    IN  IF \E idx \in 0..(n - 1) : idx >= len
        THEN Panicked
        ELSE Returned([i \in 1..n |->
                Complex(IF window[i] = NaN THEN NaN ELSE window[i] * vec[i], 0)])

\* The closure's work on one frame, up to the consumer's argument
ProcessFrame(self, vec) ==
    LET converted == Converted(self.hamming_window, vec)
        spectrum == Radix4_process(self.fft[1], converted.value)
    IN  IF converted.panicked THEN Panicked
        ELSE IF spectrum.panicked THEN Panicked
        ELSE fold_output(spectrum.value)

\* Faulty variant: a new framer is stored, the retained samples are lost
PutBackFresh(self, s) == [self EXCEPT !.slicer = <<FixedSlicer_new(s.frame_size, s.hop)>>]

\* self.slicer = Some(slicer)
PutBack(self, s) == [self EXCEPT !.slicer = <<s>>]

\* The on_frame closure over the frames of one process call, from frame k on.
\* failAt: the invocation (1, 2, ... within this call) at which the caller's
\* consumer panics, 0 for a consumer that never fails.
RECURSIVE OnFrames(_, _, _, _, _)
OnFrames(self, frames, k, failAt, args) ==
    IF k > Len(frames)
    THEN [invocations |-> args, outcome |-> "returned"]
    ELSE LET folded == ProcessFrame(self, frames[k])
         IN  IF folded.panicked
             THEN [invocations |-> args, outcome |-> "index_panic"]
             ELSE IF k = failAt
             THEN [invocations |-> Append(args, folded.value), outcome |-> "consumer_panic"]
             ELSE OnFrames(self, frames, k + 1, failAt, Append(args, folded.value))

\* A panic unwinds out of consume: the framer taken at entry is dropped and
\* self.slicer stays None.
consume(self, data, failAt) ==
    IF self.slicer = <<>>
    THEN [self |-> self, invocations |-> <<>>, outcome |-> "unwrap_panic"]
    ELSE
      LET taken == [self EXCEPT !.slicer = <<>>]
          r == FixedSlicer_process(self.slicer[1], data)
          done == OnFrames(taken, r.frames, 1, failAt, <<>>)
      IN  [self |-> IF done.outcome = "returned" THEN PutBack(taken, r.slicer) ELSE taken,
           invocations |-> done.invocations,
           outcome |-> done.outcome]

-----------------------------------------------------------------------------
(* The caller: one pipeline, fed a stream in chunks *)

Streams == {1, 2}

\* Sample p (from 1) of stream sd, in -2..2
Sample(sd, p) == (((p \div 64) * sd + p) % 5) - 2

Chunk(sd, from, n) == [i \in 1..n |-> Sample(sd, from + i)]

ChunkLens == {0, 1, FRAME_SIZE \div 3, FRAME_SIZE - 1, FRAME_SIZE,
              FRAME_SIZE + FRAME_SIZE \div 3}

FailAts == {0, 1, 2}

\* The longest stream fed to one pipeline: MaxFrames frames and no more
MaxFed == FRAME_SIZE + MaxFrames * (FRAME_SIZE \div 3) - 1

This == [slicer |-> slicer, fft |-> fft, hamming_window |-> hamming_window]

InitPipeline ==
    /\ pc = "unbuilt"
    /\ slicer = <<>>
    /\ fft = <<>>
    /\ hamming_window = <<>>
    /\ newOutcome = "none"
    /\ seed \in Streams
    /\ fed = 0
    /\ calls = 0
    /\ outcome = "none"
    /\ delivered = <<>>

New ==
    /\ pc = "unbuilt"
    /\ newOutcome = "none"
    /\ LET r == Fft_new
       IN  IF r.panicked
           THEN /\ newOutcome' = "panic"
                /\ UNCHANGED <<pc, slicer, fft, hamming_window>>
           ELSE /\ newOutcome' = "ok"
                /\ pc' = "built"
                /\ slicer' = r.value.slicer
                /\ fft' = r.value.fft
                /\ hamming_window' = r.value.hamming_window
    /\ UNCHANGED <<seed, fed, calls, outcome, delivered>>
    /\ UNCHANGED <<windowVars, foldVars>>

\* consume(&data, consumer), data the next n samples of the stream
Consume(n, failAt) ==
    /\ pc = "built"
    /\ calls < MaxCalls
    /\ fed + n <= MaxFed
    /\ \E r \in {consume(This, Chunk(seed, fed, n), failAt)} :
           /\ slicer' = r.self.slicer
           /\ fft' = r.self.fft
           /\ hamming_window' = r.self.hamming_window
           /\ fed' = IF r.outcome = "unwrap_panic" THEN fed ELSE fed + n
           /\ outcome' = r.outcome
           /\ delivered' = delivered \o r.invocations
    /\ calls' = calls + 1
    /\ UNCHANGED <<pc, newOutcome, seed>>
    /\ UNCHANGED <<windowVars, foldVars>>

-----------------------------------------------------------------------------
(* Specifications *)

Init ==
    /\ InitPipeline
    /\ w_size = 0 /\ w_scale = FP /\ w_done = FALSE /\ w_result = <<>>
    /\ f_spectrum = <<>> /\ f_done = FALSE /\ f_result = Panicked

Next ==
    \/ New
    \/ \E n \in ChunkLens, failAt \in FailAts : Consume(n, failAt)

Spec == Init /\ [][Next]_vars

IdlePipeline ==
    /\ pc = "unbuilt" /\ slicer = <<>> /\ fft = <<>> /\ hamming_window = <<>>
    /\ newOutcome = "none" /\ seed = 1 /\ fed = 0 /\ calls = 0
    /\ outcome = "none" /\ delivered = <<>>

WindowInit ==
    /\ InitWindow
    /\ IdlePipeline
    /\ f_spectrum = <<>> /\ f_done = FALSE /\ f_result = Panicked

WindowNext == CallWindow /\ UNCHANGED <<pipelineVars, foldVars>>

SpecWindow == WindowInit /\ [][WindowNext]_vars

FoldInit ==
    /\ InitFold
    /\ IdlePipeline
    /\ w_size = 0 /\ w_scale = FP /\ w_done = FALSE /\ w_result = <<>>

FoldNext == CallFold /\ UNCHANGED <<pipelineVars, windowVars>>

SpecFold == FoldInit /\ [][FoldNext]_vars

-----------------------------------------------------------------------------
(* Properties *)

\* A pipeline as Fft::new() returns it
FreshFft == Fft_new.value

\* What a new pipeline delivers when the first T samples of stream sd come in one call
OneShot(sd, T) == consume(FreshFft, Chunk(sd, 0, T), 0).invocations

\* The folded spectrum of the frame at stream positions [from, from + 4096)
SpectrumAt(sd, from) == ProcessFrame(FreshFft, Chunk(sd, from, 4096)).value

\* C1: streaming equivalence.  Once two (or more) consume calls have returned,
\* the consumer has received exactly the sequence of folded spectra that a
\* new pipeline delivers for the concatenation of the chunks in a single call.
C1_StreamingEquivalence ==
    (calls >= 2 /\ outcome = "returned") => delivered = OneShot(seed, fed)

\* Two non-empty chunks of FRAME_SIZE - 1 samples: neither holds a frame, their
\* concatenation holds three.
C1_Witness ==
    /\ calls = 2 /\ outcome = "returned"
    /\ fed = 2 * (FRAME_SIZE - 1)
    /\ Len(delivered) = 3
    /\ delivered[1] # delivered[2] /\ delivered[2] # delivered[3]

\* C2: the k-th consumer invocation (k = 0, 1, ...) carries the spectrum of the
\* frame at stream positions [k * 1365, k * 1365 + 4096), all of them already
\* fed; the log keeps the invocations in the order they were made.
C2_FramesInOrder ==
    \A k \in 1..Len(delivered) :
        /\ (k - 1) * 1365 + 4096 <= fed
        /\ delivered[k] = SpectrumAt(seed, (k - 1) * 1365)

C2_Witness ==
    /\ calls >= 2 /\ outcome = "returned"
    /\ Len(delivered) = 3
    /\ delivered[1] # delivered[2] /\ delivered[2] # delivered[3]
    /\ delivered[1] # delivered[3]

FramesIn(T) == IF T < 4096 THEN 0 ELSE (T - 4096) \div 1365 + 1

\* C3: after every consume call that returned, the consumer has been invoked
\* once per complete frame of the T samples fed so far: 0 times while T < N,
\* (T - N) div H + 1 times from T = N on; every delivered sequence has
\* frame_size/2 + 1 entries; and a call that feeds no sample adds no invocation.
C3_FrameCount ==
    /\ [](/\ outcome = "returned" => Len(delivered) = FramesIn(fed)
          /\ \A k \in 1..Len(delivered) : Len(delivered[k]) = 4096 \div 2 + 1)
    /\ [][fed' = fed => delivered' = delivered]_vars

\* Exactly frame_size samples in the first call of a new pipeline
C3_Witness ==
    /\ calls = 1 /\ outcome = "returned"
    /\ fed = FRAME_SIZE
    /\ Len(delivered) = 1
    /\ Len(delivered[1]) = FRAME_SIZE \div 2 + 1

\* C4 as claimed: fold_output returns for every input, the empty spectrum
\* included, a sequence of spectrum.len()/2 + 1 entries.
C4_FoldLength ==
    f_done => /\ ~f_result.panicked
              /\ Len(f_result.value) = Len(f_spectrum) \div 2 + 1

Within(a, b, tol) == a # NaN /\ Abs(a - b) <= tol

\* The expected window of tests::test_prepare_hamming_window, in units of 1/FP
TestWindow10 ==
    <<8000000, 18761955, 46012184, 77000000, 97225860,
      97225860, 77000000, 46012184, 18761955, 8000000>>

\* The window of size 10 as the specification prints it, in units of 1/FP
SpecWindow10 ==
    <<8000000, 18760000, 46010000, 77000000, 97230000,
      97230000, 77000000, 46010000, 18760000, 8000000>>

\* 1e-6 in units of 1/FP
Epsilon == FP \div 10^6

\* C5 as claimed: size entries, and for size 10 and scale 1.0 the four-digit
\* values within 1e-6.
C5_FourDigitWindow ==
    w_done =>
        /\ Len(w_result) = w_size
        /\ (w_size = 10 /\ w_scale = FP) =>
               \A i \in 1..10 : Within(w_result[i], SpecWindow10[i], Epsilon)

\* The weight scale * w, to a millionth of the scale
Weight(scale, w) == FMul(scale, w)
WeightTol(scale) == scale \div 10^6 + 1

\* C5, amended: size entries; for size 10 and scale 1.0 the values of the
\* repository's test within 1e-6; and, where the cosine is known exactly
\* (1 at both ends, -1 in the middle of an odd size), the weights 0.08 * scale
\* and 1.0 * scale.
C5_Window ==
    w_done =>
        /\ Len(w_result) = w_size
        /\ (w_size = 10 /\ w_scale = FP) =>
               \A i \in 1..10 : Within(w_result[i], TestWindow10[i], Epsilon)
        /\ w_size >= 2 =>
               /\ Within(w_result[1], Weight(w_scale, 8 * (FP \div 100)), WeightTol(w_scale))
               /\ Within(w_result[w_size], Weight(w_scale, 8 * (FP \div 100)), WeightTol(w_scale))
        /\ (w_size >= 3 /\ w_size % 2 = 1) =>
               Within(w_result[(w_size + 1) \div 2], w_scale, WeightTol(w_scale))

C5_Witness ==
    /\ w_done /\ w_size = 10 /\ w_scale = FP
    /\ Len(w_result) = 10
    /\ Within(w_result[2], 18761955, Epsilon)
    /\ ~Within(w_result[2], 18760000, Epsilon)

\* C6 as claimed: the window of size 1 is the single weight scale.
C6_SizeOne ==
    (w_done /\ w_size = 1) => w_result = <<w_scale>>

\* How construction ends for a frame size n: Fft::new returns Fft, not a
\* Result, so the one fallible step, Radix4::new(n), ends it by a panic.
ConstructionOutcome(n) == IF Radix4_new(n).panicked THEN "panic" ELSE "ok"

ProbeSizes == 1..MaxSize

C8_NoFailure == outcome \in {"none", "returned", "consumer_panic"}

\* The part of C8 that holds: no index of the per-frame processing is out of range.
IndicesInRange == outcome # "index_panic"

\* C9: for a spectrum of length N >= 1, fold_output returns, and its entry i is
\* re(spectrum[i])^2 + im(spectrum[i])^2 for every i in [0, N/2]; the input
\* is left as it was.
C9_Power ==
    /\ [](f_done /\ Len(f_spectrum) >= 1 =>
            /\ ~f_result.panicked
            /\ \A i \in 0..(Len(f_spectrum) \div 2) :
                   f_result.value[i + 1] =
                       f_spectrum[i + 1].re * f_spectrum[i + 1].re
                       + f_spectrum[i + 1].im * f_spectrum[i + 1].im)
    /\ [][f_spectrum' = f_spectrum]_vars

C9_Witness ==
    /\ f_done /\ Len(f_spectrum) = 3
    /\ f_spectrum[2] = Complex(3, 2) /\ f_spectrum[3] = Complex(0, -2)
    /\ f_result = Returned(<<Power(f_spectrum[1]), 13>>)

\* C10 as claimed: between consume calls the framer is present.
C10_FramerPresent == pc = "built" => slicer # <<>>

====
